---------------------------- MODULE Spec2Model ----------------------------
(***************************************************************************)
(* Model of src/main.py: the shiny-hunt tracker.  A tab (PokemonTab) is a  *)
(* named, ordered list of trackers (PokemonTracker); the App keeps the     *)
(* open tabs in a notebook and mirrors them to one JSON file per tab.      *)
(*                                                                         *)
(* A Python str is a sequence of one-character strings, so that the        *)
(* formatting of the announcement, its recovery by regular expression and  *)
(* the derivation of file names are computed character by character.       *)
(* A parsed JSON object is a function whose domain is the set of keys the  *)
(* object holds.                                                           *)
(***************************************************************************)
EXTENDS Integers, Sequences, FiniteSets, TLC

VARIABLES
    tabs,       \* notebook.tabs(): the open PokemonTab widgets, in tab order
    selected,   \* notebook.select(): index of the current tab, 0 when none
    disk,       \* the file system: path -> file content
    pc,         \* "startup" (App.__init__ scanning), "running", "destroyed"
    listing,    \* os.listdir(SAVE_DIRECTORY) as iterated by the startup scan
    scan_i,     \* number of listing entries the startup scan has consumed
    printed,    \* the "Failed to load tab" lines printed, as file paths
    msg,        \* the messagebox shown by the last handler ("" when none)
    ev          \* the last handler run and the input the user gave it

vars == <<tabs, selected, disk, pc, listing, scan_i, printed, msg, ev>>

---------------------------------------------------------------------------
(* Bounds of the model *)

MaxCount == 2
MaxOps == 3
MaxTrackers == 2
MaxTabs == 2
MaxNameLen == 2
MaxAdded == 1

---------------------------------------------------------------------------
(* Python str primitives *)

UpperSeq == <<"A","B","C","D","E","F","G","H","I","J","K","L","M",
              "N","O","P","Q","R","S","T","U","V","W","X","Y","Z">>
LowerSeq == <<"a","b","c","d","e","f","g","h","i","j","k","l","m",
              "n","o","p","q","r","s","t","u","v","w","x","y","z">>
DigitSeq == <<"0","1","2","3","4","5","6","7","8","9">>

Range(s) == {s[i] : i \in DOMAIN s}

UpperChars == Range(UpperSeq)
DigitChars == Range(DigitSeq)
WordChars == Range(UpperSeq) \cup Range(LowerSeq) \cup Range(DigitSeq) \cup {"_"}
LowerOf == [c \in UpperChars |-> LowerSeq[CHOOSE i \in DOMAIN UpperSeq : UpperSeq[i] = c]]
DigitValue == [c \in DigitChars |-> (CHOOSE i \in DOMAIN DigitSeq : DigitSeq[i] = c) - 1]

IsUpper(c) == c \in UpperChars
IsDigit(c) == c \in DigitChars
\* \w of the re module: a letter, a digit or the underscore
IsWordChar(c) == c \in WordChars
\* str.strip() without argument strips white space
IsSpace(c) == c \in {" ", "\n", "\t", "\r"}

char_lower(c) == IF IsUpper(c) THEN LowerOf[c] ELSE c

str_lower(s) == [i \in DOMAIN s |-> char_lower(s[i])]

str_replace_space(s) == [i \in DOMAIN s |-> IF s[i] = " " THEN "_" ELSE s[i]]

str_strip(s) ==
    LET keep == {i \in DOMAIN s : ~IsSpace(s[i])}
    IN  IF keep = {} THEN <<>>
        ELSE LET lo == CHOOSE i \in keep : \A j \in keep : i <= j
                 hi == CHOOSE i \in keep : \A j \in keep : j <= i
             IN  SubSeq(s, lo, hi)

\* text[i..] starts with lit
StartsAt(text, i, lit) ==
    /\ i >= 1
    /\ i + Len(lit) - 1 <= Len(text)
    /\ \A j \in DOMAIN lit : text[i + j - 1] = lit[j]

EndsWith(text, lit) ==
    /\ Len(lit) <= Len(text)
    /\ StartsAt(text, Len(text) - Len(lit) + 1, lit)

RECURSIVE format_int(_)
\* f"{count}": the decimal digits of an int, with a sign when negative
format_int(n) ==
    IF n < 0 THEN <<"-">> \o format_int(-n)
    ELSE IF n < 10 THEN <<DigitSeq[n + 1]>>
    ELSE format_int(n \div 10) \o <<DigitSeq[(n % 10) + 1]>>

RECURSIVE parse_int(_)
\* int(s) of a non-empty run of decimal digits
parse_int(s) ==
    IF s = <<>> THEN 0
    ELSE 10 * parse_int(SubSeq(s, 1, Len(s) - 1)) + DigitValue[s[Len(s)]]

---------------------------------------------------------------------------
(* String literals of the source *)

SAVE_DIRECTORY == <<"s","h","i","n","y","_","s","a","v","e","s">>
JsonExt == <<".","j","s","o","n">>
S_Shiny == <<"S","h","i","n","y"," ">>
S_obtained_in == <<" ","o","b","t","a","i","n","e","d"," ","i","n"," ">>
S_try == <<"t","r","y">>
S_tries == <<"t","r","i","e","s">>
S_Unknown == <<"U","n","k","n","o","w","n">>
S_Untitled == <<"U","n","t","i","t","l","e","d">>
S_Error == <<"E","r","r","o","r">>
S_ErrorLoading == <<"E","r","r","o","r"," ","L","o","a","d","i","n","g">>
S_NewPokemon == <<"N","e","w"," ","P","o","k","e","m","o","n">>

os_path_join(dir, f) == dir \o <<"/">> \o f

---------------------------------------------------------------------------
(* PokemonTracker *)

\* faulty variant: the label is rewritten but the widgets stay enabled
lock_as_obtained_enabled(t) ==
    LET suffix == IF t.count_var = 1 THEN S_try ELSE S_tries
    IN  [t EXCEPT !.name_var = S_Shiny \o t.name_var \o S_obtained_in
                               \o format_int(t.count_var) \o <<" ">> \o suffix \o <<"!">>]

\* faulty variant: "try" also for 0 attempts
lock_as_obtained_plural(t) ==
    LET suffix == IF t.count_var <= 1 THEN S_try ELSE S_tries
    IN  [t EXCEPT !.name_var = S_Shiny \o t.name_var \o S_obtained_in
                               \o format_int(t.count_var) \o <<" ">> \o suffix \o <<"!">>,
                  !.state = "disabled"]

\* lock_as_obtained: rewrite the label to the announcement, make the entry
\* read-only and disable the three buttons
lock_as_obtained(t) ==
    LET name == t.name_var
        count == t.count_var
        suffix == IF count = 1 THEN S_try ELSE S_tries
        final_text == S_Shiny \o name \o S_obtained_in \o format_int(count)
                      \o <<" ">> \o suffix \o <<"!">>
    IN  [t EXCEPT !.name_var = final_text, !.state = "disabled"]

\* PokemonTracker(parent, name, count, obtained).  hist is a history field:
\* the constructor's count followed by the +1/-1 clicks handled since.
PokemonTracker(name, count, obtained) ==
    LET t == [name_var |-> name, count_var |-> count, obtained_var |-> obtained,
              state |-> "normal", hist |-> <<count>>]
    IN  IF t.obtained_var THEN lock_as_obtained(t) ELSE t

increment_count(t) ==
    [t EXCEPT !.count_var = t.count_var + 1, !.hist = Append(@, 1)]

\* faulty variant: no floor at 0
decrement_count_unguarded(t) ==
    [t EXCEPT !.count_var = t.count_var - 1, !.hist = Append(@, -1)]

decrement_count(t) ==
    LET current_count == t.count_var
    IN  IF current_count > 0
        THEN [t EXCEPT !.count_var = current_count - 1, !.hist = Append(@, -1)]
        ELSE [t EXCEPT !.hist = Append(@, -1)]

mark_obtained(t) == lock_as_obtained([t EXCEPT !.obtained_var = TRUE])

\* re.search(r"Shiny (.*) obtained in (\d+)", text): the leftmost start, the
\* longest (.*) that stays on one line, then the longest run of digits.
\* Returns <<>> for no match, else <<group 1, group 2>>.
NameEnds(text, i) ==
    {e \in (i + Len(S_Shiny) - 1)..Len(text) :
        /\ StartsAt(text, e + 1, S_obtained_in)
        /\ e + Len(S_obtained_in) + 1 <= Len(text)
        /\ IsDigit(text[e + Len(S_obtained_in) + 1])
        /\ \A j \in (i + Len(S_Shiny))..e : text[j] /= "\n"}

MatchStarts(text) ==
    {i \in DOMAIN text : StartsAt(text, i, S_Shiny) /\ NameEnds(text, i) /= {}}

re_search(text) ==
    LET starts == MatchStarts(text)
    IN  IF starts = {} THEN <<>>
        ELSE LET i == CHOOSE a \in starts : \A b \in starts : a <= b
                 ends == NameEnds(text, i)
                 e == CHOOSE a \in ends : \A b \in ends : b <= a
                 d0 == e + Len(S_obtained_in) + 1
                 d1 == CHOOSE a \in d0..Len(text) :
                          /\ \A j \in d0..a : IsDigit(text[j])
                          /\ (a = Len(text) \/ ~IsDigit(text[a + 1]))
             IN  <<SubSeq(text, i + Len(S_Shiny), e), SubSeq(text, d0, d1)>>

\* PokemonTracker.get_data
get_data(t) ==
    IF t.obtained_var
    THEN LET text == t.name_var
             match == re_search(text)
         IN  IF match /= <<>>
             THEN [name |-> match[1], count |-> parse_int(match[2]),
                   obtained |-> t.obtained_var]
             ELSE [name |-> S_Unknown, count |-> t.count_var,
                   obtained |-> t.obtained_var]
    ELSE [name |-> t.name_var, count |-> t.count_var, obtained |-> t.obtained_var]

---------------------------------------------------------------------------
(* PokemonTab *)

PokemonTab(tab_name) == [tab_name |-> tab_name, trackers |-> <<>>]

add_tracker(tab, name, count, obtained) ==
    [tab EXCEPT !.trackers = Append(@, PokemonTracker(name, count, obtained))]

\* PokemonTab.get_data
tab_get_data(tab) ==
    [tab_name |-> tab.tab_name,
     trackers |-> [k \in DOMAIN tab.trackers |-> get_data(tab.trackers[k])]]

---------------------------------------------------------------------------
(* App: pure helpers *)

\* dict.get(key, default)
dict_get(d, key, default) == IF key \in DOMAIN d THEN d[key] ELSE default

\* re.sub(r'[^\w\-_\. ]', '_', tab_name)
re_sub_unsafe(s) ==
    [i \in DOMAIN s |-> IF IsWordChar(s[i]) \/ s[i] \in {"-", "_", ".", " "}
                        THEN s[i] ELSE "_"]

\* faulty variant: strips before replacing the unsafe characters
safe_name_strip_first(tab_name) ==
    str_replace_space(str_lower(re_sub_unsafe(str_strip(tab_name))))

safe_name(tab_name) == str_replace_space(str_lower(str_strip(re_sub_unsafe(tab_name))))

\* App._get_filename_for_tab
get_filename_for_tab(tab_name) ==
    os_path_join(SAVE_DIRECTORY, safe_name(tab_name) \o JsonExt)

RECURSIVE add_trackers(_, _)
\* the loop of _create_and_add_tab over data["trackers"]
add_trackers(tab, recs) ==
    IF recs = <<>> THEN tab
    ELSE LET tracker_data == Head(recs)
         IN  add_trackers(add_tracker(tab,
                                      dict_get(tracker_data, "name", S_Error),
                                      dict_get(tracker_data, "count", 0),
                                      dict_get(tracker_data, "obtained", FALSE)),
                          Tail(recs))

\* App._create_and_add_tab: the PokemonTab it builds
create_and_add_tab(name, data) ==
    LET tab == PokemonTab(name)
    IN  IF DOMAIN data /= {} /\ "trackers" \in DOMAIN data
        THEN add_trackers(tab, data["trackers"])
        ELSE tab

\* File contents.  A file either holds a JSON object or something json.load
\* (or the first data.get) raises on: invalid JSON, undecodable bytes, a
\* JSON value that is no object.
Corrupt == [bad |-> TRUE]
Raises(content) == "bad" \in DOMAIN content

\* the duplicate check of load_tab_from_file: index of the first open tab
\* named tab_name, 0 when there is none
\* faulty variant: no duplicate check
find_open_tab_none(ts, tab_name) == 0

find_open_tab(ts, tab_name) ==
    LET hits == {i \in DOMAIN ts : ts[i].tab_name = tab_name}
    IN  IF hits = {} THEN 0 ELSE CHOOSE i \in hits : \A j \in hits : i <= j

\* the tab_name defaults of the two loaders
load_default_name == S_Untitled
startup_default_name == S_ErrorLoading

RECURSIVE write_tabs_stale(_, _, _)
\* faulty variant: every file gets the data of the first tab
write_tabs_stale(d, ts, n) ==
    IF n = 0 THEN d
    ELSE LET before == write_tabs_stale(d, ts, n - 1)
             data == tab_get_data(ts[1])
             filename == get_filename_for_tab(ts[n].tab_name)
         IN  (filename :> data) @@ before

RECURSIVE write_tabs(_, _, _)
\* the save loop of on_closing over the first n tabs of ts, in tab order
write_tabs(d, ts, n) ==
    IF n = 0 THEN d
    ELSE LET before == write_tabs(d, ts, n - 1)
             tab_widget == ts[n]
             data == tab_get_data(tab_widget)
             filename == get_filename_for_tab(tab_widget.tab_name)
         IN  (filename :> data) @@ before

\* open(filename, 'w') + json.dump that raises: the file is untouched when
\* open raised, truncated or partly written (no longer JSON) otherwise
FailedWrites(d, filename) == {d, (filename :> Corrupt) @@ d}

---------------------------------------------------------------------------
(* Handlers of the running application.  A button of the hidden pages     *)
(* cannot be clicked: tracker handlers act on the selected tab; a disabled *)
(* button does not call its command and a read-only entry takes no edit.   *)

Running == pc = "running"
NoScan == UNCHANGED <<listing, scan_i, printed>>

RECURSIVE SumLen(_)
SumLen(ts) == IF ts = <<>> THEN 0 ELSE (Len(Head(ts).hist) - 1) + SumLen(Tail(ts))

RECURSIVE SumClicks(_)
SumClicks(tbs) == IF tbs = <<>> THEN 0 ELSE SumLen(Head(tbs).trackers) + SumClicks(Tail(tbs))

\* the number of "+" and "-" clicks handled so far, which MaxOps caps
TotalClicks == SumClicks(tabs)

SetTracker(k, t) == tabs' = [tabs EXCEPT ![selected].trackers[k] = t]

\* the "+" button of tracker k
ClickIncrement(k) ==
    /\ Running /\ selected /= 0
    /\ k \in DOMAIN tabs[selected].trackers
    /\ tabs[selected].trackers[k].state = "normal"
    /\ TotalClicks < MaxOps
    /\ SetTracker(k, increment_count(tabs[selected].trackers[k]))
    /\ msg' = "" /\ ev' = [op |-> "increment_count"]
    /\ UNCHANGED <<selected, disk, pc>> /\ NoScan

\* the "-" button of tracker k
ClickDecrement(k) ==
    /\ Running /\ selected /= 0
    /\ k \in DOMAIN tabs[selected].trackers
    /\ tabs[selected].trackers[k].state = "normal"
    /\ TotalClicks < MaxOps
    /\ SetTracker(k, decrement_count(tabs[selected].trackers[k]))
    /\ msg' = "" /\ ev' = [op |-> "decrement_count"]
    /\ UNCHANGED <<selected, disk, pc>> /\ NoScan

\* the "Got it!" button of tracker k
ClickGotIt(k) ==
    /\ Running /\ selected /= 0
    /\ k \in DOMAIN tabs[selected].trackers
    /\ tabs[selected].trackers[k].state = "normal"
    /\ SetTracker(k, mark_obtained(tabs[selected].trackers[k]))
    /\ msg' = "" /\ ev' = [op |-> "mark_obtained"]
    /\ UNCHANGED <<selected, disk, pc>> /\ NoScan

\* typing in the name entry of tracker k (textvariable name_var)
EditName(k, text) ==
    /\ Running /\ selected /= 0
    /\ k \in DOMAIN tabs[selected].trackers
    /\ tabs[selected].trackers[k].state = "normal"
    /\ text /= tabs[selected].trackers[k].name_var
    /\ SetTracker(k, [tabs[selected].trackers[k] EXCEPT !.name_var = text])
    /\ msg' = "" /\ ev' = [op |-> "edit"]
    /\ UNCHANGED <<selected, disk, pc>> /\ NoScan

\* the "Add Pokemon Tracker" button: PokemonTab.add_tracker()
ClickAddTracker ==
    /\ Running /\ selected /= 0
    /\ Len(tabs[selected].trackers) < MaxTrackers
    /\ tabs' = [tabs EXCEPT ![selected] = add_tracker(@, S_NewPokemon, 0, FALSE)]
    /\ msg' = "" /\ ev' = [op |-> "add_tracker"]
    /\ UNCHANGED <<selected, disk, pc>> /\ NoScan

\* clicking the header of tab i
SelectTab(i) ==
    /\ Running
    /\ i \in DOMAIN tabs /\ i /= selected
    /\ selected' = i
    /\ msg' = "" /\ ev' = [op |-> "select"]
    /\ UNCHANGED <<tabs, disk, pc>> /\ NoScan

\* App.add_tab; name is what askstring returned (empty: cancelled or blank)
add_tab(name) ==
    /\ Running
    /\ Len(tabs) < MaxTabs
    /\ IF name /= <<>>
       THEN /\ tabs' = Append(tabs, create_and_add_tab(name, <<>>))
            /\ selected' = Len(tabs) + 1
       ELSE UNCHANGED <<tabs, selected>>
    /\ msg' = "" /\ ev' = [op |-> "add_tab", name |-> name]
    /\ UNCHANGED <<disk, pc>> /\ NoScan

\* App.remove_current_tab; confirm is the answer of askyesno, removed says
\* whether os.remove succeeded, next is the tab the notebook selects after
\* forget (a neighbour of the removed one)
remove_current_tab(confirm, removed, next) ==
    /\ Running
    /\ ev' = [op |-> "remove_current_tab", confirm |-> confirm]
    /\ IF selected = 0
       THEN /\ msg' = "showwarning: No Tab"
            /\ UNCHANGED <<tabs, selected, disk>>
       ELSE IF ~confirm
       THEN /\ msg' = ""
            /\ UNCHANGED <<tabs, selected, disk>>
       ELSE LET filename == get_filename_for_tab(tabs[selected].tab_name)
                exists == filename \in DOMAIN disk
            IN  /\ IF exists /\ removed
                   THEN disk' = [f \in DOMAIN disk \ {filename} |-> disk[f]]
                   ELSE UNCHANGED disk
                /\ msg' = IF exists /\ ~removed THEN "showerror: Error" ELSE ""
                /\ tabs' = [i \in 1..(Len(tabs) - 1) |->
                               IF i < selected THEN tabs[i] ELSE tabs[i + 1]]
                /\ next \in {selected - 1, selected}
                /\ IF Len(tabs) = 1 THEN next = 0 ELSE next \in 1..(Len(tabs) - 1)
                /\ selected' = next
    /\ UNCHANGED pc /\ NoScan

\* App.save_current_tab; written says whether open and json.dump succeeded
save_current_tab(written) ==
    /\ Running
    /\ ev' = [op |-> "save_current_tab", written |-> written]
    /\ IF selected = 0
       THEN /\ msg' = "showwarning: No Tab"
            /\ UNCHANGED disk
       ELSE LET tab_widget == tabs[selected]
                data == tab_get_data(tab_widget)
                filename == get_filename_for_tab(tab_widget.tab_name)
            IN  IF written
                THEN /\ disk' = (filename :> data) @@ disk
                     /\ msg' = "showinfo: Saved"
                ELSE /\ disk' \in FailedWrites(disk, filename)
                     /\ msg' = "showerror: Save Error"
    /\ UNCHANGED <<tabs, selected, pc>> /\ NoScan

\* App.load_tab_from_file; filename is what askopenfilename returned (empty:
\* cancelled)
load_tab_from_file(filename) ==
    /\ Running
    /\ ev' = [op |-> "load_tab_from_file", filename |-> filename]
    /\ IF filename = <<>>
       THEN /\ msg' = ""
            /\ UNCHANGED <<tabs, selected>>
       ELSE IF Raises(disk[filename])
       THEN /\ msg' = "showerror: Load Error"
            /\ UNCHANGED <<tabs, selected>>
       ELSE LET data == disk[filename]
                tab_name == dict_get(data, "tab_name", load_default_name)
                open == find_open_tab(tabs, tab_name)
            IN  IF open /= 0
                THEN /\ msg' = "showwarning: Already Open"
                     /\ selected' = open
                     /\ UNCHANGED tabs
                ELSE /\ Len(tabs) < MaxTabs
                     /\ tabs' = Append(tabs, create_and_add_tab(tab_name, data))
                     /\ selected' = Len(tabs) + 1
                     /\ msg' = ""
    /\ UNCHANGED <<disk, pc>> /\ NoScan

\* App.on_closing; confirm is the answer of askyesno, n is the number of
\* tabs written before a write raised (n = Len(tabs): none raised)
on_closing(confirm, n) ==
    /\ Running
    /\ ev' = [op |-> "on_closing", confirm |-> confirm, failed |-> n < Len(tabs)]
    /\ IF ~confirm
       THEN /\ n = Len(tabs)
            /\ msg' = ""
            /\ UNCHANGED disk
       ELSE IF n = Len(tabs)
       THEN /\ disk' = write_tabs(disk, tabs, n)
            /\ msg' = ""
       ELSE /\ disk' \in FailedWrites(write_tabs(disk, tabs, n),
                                      get_filename_for_tab(tabs[n + 1].tab_name))
            /\ msg' = "showerror: Save Error"
    /\ pc' = "destroyed"
    /\ UNCHANGED <<tabs, selected>> /\ NoScan

---------------------------------------------------------------------------
(* App.__init__: load_all_tabs_on_startup, one listing entry per step *)

\* faulty variant: the first file that raises ends the scan
ScanStep_abort ==
    /\ pc = "startup"
    /\ scan_i < Len(listing)
    /\ LET f == listing[scan_i + 1]
           filepath == os_path_join(SAVE_DIRECTORY, f)
       IN  IF ~EndsWith(f, JsonExt)
           THEN /\ scan_i' = scan_i + 1
                /\ UNCHANGED <<tabs, selected, printed>>
           ELSE IF Raises(disk[filepath])
           THEN /\ printed' = Append(printed, filepath)
                /\ scan_i' = Len(listing)
                /\ UNCHANGED <<tabs, selected>>
           ELSE LET data == disk[filepath]
                    tab_name == dict_get(data, "tab_name", startup_default_name)
                IN  /\ tabs' = Append(tabs, create_and_add_tab(tab_name, data))
                    /\ selected' = Len(tabs) + 1
                    /\ scan_i' = scan_i + 1
                    /\ UNCHANGED printed
    /\ msg' = "" /\ ev' = [op |-> "scan"]
    /\ UNCHANGED <<disk, pc, listing>>

ScanStep ==
    /\ pc = "startup"
    /\ scan_i < Len(listing)
    /\ LET f == listing[scan_i + 1]
           filepath == os_path_join(SAVE_DIRECTORY, f)
       IN  IF ~EndsWith(f, JsonExt)
           THEN UNCHANGED <<tabs, selected, printed>>
           ELSE IF Raises(disk[filepath])
           THEN /\ printed' = Append(printed, filepath)
                /\ UNCHANGED <<tabs, selected>>
           ELSE LET data == disk[filepath]
                    tab_name == dict_get(data, "tab_name", startup_default_name)
                IN  /\ tabs' = Append(tabs, create_and_add_tab(tab_name, data))
                    /\ selected' = Len(tabs) + 1
                    /\ UNCHANGED printed
    /\ scan_i' = scan_i + 1
    /\ msg' = "" /\ ev' = [op |-> "scan"]
    /\ UNCHANGED <<disk, pc, listing>>

\* the scan is over: __init__ returns and mainloop starts
StartMainloop ==
    /\ pc = "startup"
    /\ scan_i = Len(listing)
    /\ pc' = "running"
    /\ msg' = "" /\ ev' = [op |-> "mainloop"]
    /\ UNCHANGED <<tabs, selected, disk>> /\ NoScan

---------------------------------------------------------------------------
(* Inputs *)

N_T == <<"T">>
N_Foo == <<"F","o","o">>
N_Line == <<"a","\n","b">>
N_AB == <<"A"," ","B">>
N_a_b == <<"a","_","b">>
N_Glazed == <<"P","o","k","e","m","o","n"," ","G","l","a","z","e","d","!">>
N_glazed == <<"p","o","k","e","m","o","n","_","g","l","a","z","e","d","!">>
\* a name that holds the middle of the announcement
N_Nested == <<"X"," ","o","b","t","a","i","n","e","d"," ","i","n"," ","5">>
\* a name that is itself an announcement
N_Announce == S_Shiny \o <<"X">> \o S_obtained_in \o <<"1"," ">> \o S_try \o <<"!">>

Counts == {0, 1, 3, 10}

\* the state of a running application with tabs ts open and files d
InitRunning(ts, d) ==
    /\ tabs = ts
    /\ selected = Len(ts)
    /\ disk = d
    /\ pc = "running"
    /\ listing = <<>> /\ scan_i = 0 /\ printed = <<>>
    /\ msg = "" /\ ev = [op |-> "init"]

NoFiles == [f \in {} |-> Corrupt]

---------------------------------------------------------------------------
(* SpecCounter: one tab, restored from a document at startup, and the      *)
(* clicks and edits on its trackers.                                       *)

CounterRecs ==
    {[name |-> N_Foo, count |-> c, obtained |-> o] : c \in 0..MaxCount, o \in BOOLEAN}

CounterDocs ==
    {[tab_name |-> N_T, trackers |-> ts] : ts \in {<<>>} \cup {<<r>> : r \in CounterRecs}}

EditNames == {N_Line}

InitCounter == \E data \in CounterDocs :
    InitRunning(<<create_and_add_tab(data.tab_name, data)>>, NoFiles)

NextCounter ==
    \/ ClickAddTracker
    \/ \E k \in 1..MaxTrackers : ClickIncrement(k)
    \/ \E k \in 1..MaxTrackers : ClickDecrement(k)
    \/ \E k \in 1..MaxTrackers : ClickGotIt(k)
    \/ \E k \in 1..MaxTrackers : \E text \in EditNames : EditName(k, text)

SpecCounter == InitCounter /\ [][NextCounter]_vars

AllTrackers == {<<i, k>> \in (1..Len(tabs)) \X (1..(MaxTrackers + 1)) :
                   k \in DOMAIN tabs[i].trackers}

Tracker(p) == tabs[p[1]].trackers[p[2]]

Max(a, b) == IF a >= b THEN a ELSE b

RECURSIVE Replay(_)
\* the running sum of the steps of h after its first entry, started at the
\* first entry and clamped at 0 after each step
Replay(h) ==
    IF Len(h) = 1 THEN h[1]
    ELSE Max(0, Replay(SubSeq(h, 1, Len(h) - 1)) + h[Len(h)])

\* C1: a counter created with attempts = 0 never has attempts < 0, a
\* decrement at 0 leaves it at 0, and after any sequence of increments and
\* decrements attempts is the running sum of the steps clamped at 0 after
\* each step.
C1_ClampedReplay ==
    \A p \in AllTrackers :
        LET t == Tracker(p)
            n == Len(t.hist)
        IN  t.hist[1] = 0 =>
              /\ t.count_var >= 0
              /\ t.count_var = Replay(t.hist)
              /\ (n > 1 /\ t.hist[n] = -1 /\ Replay(SubSeq(t.hist, 1, n - 1)) = 0
                    => t.count_var = 0)

C1_Witness ==
    \E p \in AllTrackers :
        /\ Tracker(p).hist = <<0, -1, 1, -1>>
        /\ Tracker(p).count_var = 0
        /\ ev.op = "decrement_count"

\* C2: locked is terminal: a step never changes the label, the attempts or
\* the locked flag of a tracker that is locked, whichever handler runs, and
\* so no tracker is locked twice.
C2_LockedIsTerminal ==
    [][\A i \in DOMAIN tabs : \A k \in DOMAIN tabs[i].trackers :
          tabs[i].trackers[k].obtained_var =>
            /\ i \in DOMAIN tabs'
            /\ k \in DOMAIN tabs'[i].trackers
            /\ tabs'[i].trackers[k].name_var = tabs[i].trackers[k].name_var
            /\ tabs'[i].trackers[k].count_var = tabs[i].trackers[k].count_var
            /\ tabs'[i].trackers[k].obtained_var]_vars

\* a tracker locked by its button and one restored locked, both still as
\* they were after a later click on another tracker
C2_Witness ==
    /\ Len(tabs) = 1 /\ Len(tabs[1].trackers) = 2
    /\ tabs[1].trackers[1].obtained_var /\ Len(tabs[1].trackers[1].hist) = 1
    /\ tabs[1].trackers[2].obtained_var /\ Len(tabs[1].trackers[2].hist) = 3
    /\ tabs[1].trackers[1].state = "disabled"
    /\ ev.op = "mark_obtained"

---------------------------------------------------------------------------
(* SpecStore: one well-formed document on disk; it is loaded, its trackers *)
(* are locked, the tab is saved.                                           *)

StoreNames == {N_Foo, N_Line, N_Nested, N_Announce}

StoreRecs ==
    {[name |-> n, count |-> c, obtained |-> o] :
        n \in StoreNames, c \in Counts, o \in BOOLEAN}

MoreRecs == {[name |-> N_Foo, count |-> 1, obtained |-> FALSE],
             [name |-> <<>>, count |-> 3, obtained |-> TRUE]}

RECURSIVE SeqsUpTo(_, _)
\* the sequences over S of length at most n
SeqsUpTo(S, n) ==
    IF n = 0 THEN {<<>>}
    ELSE LET shorter == SeqsUpTo(S, n - 1)
         IN  shorter \cup {Append(q, x) : q \in shorter, x \in S}

StoreDocs ==
    {[tab_name |-> N_T, trackers |-> ts] :
        ts \in {<<>>} \cup {<<r>> \o more : r \in StoreRecs,
                                            more \in SeqsUpTo(MoreRecs, MaxTrackers - 1)}}

InFile == os_path_join(SAVE_DIRECTORY, <<"i","n">> \o JsonExt)

InitStore == \E data \in StoreDocs : InitRunning(<<>>, InFile :> data)

NextStore ==
    \/ \E f \in DOMAIN disk \cup {<<>>} : load_tab_from_file(f)
    \/ \E k \in 1..MaxTrackers : ClickGotIt(k)
    \/ \E written \in BOOLEAN : save_current_tab(written)

SpecStore == InitStore /\ [][NextStore]_vars

\* a document with tab_name and, in every tracker record, name, count >= 0
\* and obtained
WellFormed(data) ==
    /\ DOMAIN data = {"tab_name", "trackers"}
    /\ \A k \in DOMAIN data.trackers :
          /\ DOMAIN data.trackers[k] = {"name", "count", "obtained"}
          /\ data.trackers[k].count >= 0

\* text holds an announcement "Shiny <name> obtained in <count>"
MatchesAnnouncement(text) == re_search(text) /= <<>>

\* the handler just run loaded the document of file ev.filename into a new tab
JustLoaded ==
    /\ ev.op = "load_tab_from_file"
    /\ ev.filename /= <<>>
    /\ msg = ""

\* C3: round trip: a well-formed document whose tracker names do not match
\* the announcement pattern, loaded into a tab, serializes to itself.
C3_RoundTrip ==
    JustLoaded =>
        LET data == disk[ev.filename]
        IN  (/\ WellFormed(data)
             /\ \A k \in DOMAIN data.trackers : ~MatchesAnnouncement(data.trackers[k].name))
            => tab_get_data(tabs[selected]) = data

\* C4: locking an unlocked tracker with label L and attempts n, then
\* serializing it, gives name L, count n and obtained true; "Unknown" is
\* given only for a locked label that does not parse.
C4_LockThenSerialize ==
    [][\A i \in DOMAIN tabs : \A k \in DOMAIN tabs[i].trackers :
          (/\ i \in DOMAIN tabs' /\ k \in DOMAIN tabs'[i].trackers
           /\ ~tabs[i].trackers[k].obtained_var
           /\ tabs'[i].trackers[k].obtained_var)
          => /\ get_data(tabs'[i].trackers[k]) =
                  [name |-> tabs[i].trackers[k].name_var,
                   count |-> tabs[i].trackers[k].count_var,
                   obtained |-> TRUE]
             /\ (get_data(tabs'[i].trackers[k]).name = S_Unknown
                   => \/ ~MatchesAnnouncement(tabs'[i].trackers[k].name_var)
                      \/ tabs[i].trackers[k].name_var = S_Unknown)]_vars

\* the decimal digits of n, for the counts the model reaches
Decimal(n) ==
    IF n < 10 THEN <<DigitSeq[n + 1]>>
    ELSE <<DigitSeq[(n \div 10) + 1], DigitSeq[(n % 10) + 1]>>

Announcement(L, n) ==
    <<"S","h","i","n","y"," ">> \o L \o <<" ","o","b","t","a","i","n","e","d"," ","i","n"," ">>
    \o Decimal(n)
    \o (IF n = 1 THEN <<" ","t","r","y","!">> ELSE <<" ","t","r","i","e","s","!">>)

\* C5: locking a tracker with label L and attempts n sets its label to
\* "Shiny L obtained in n U!", U = "try" for n = 1 and "tries" otherwise,
\* and locks it; a record restored with obtained = true goes through the
\* same transition, so {Foo, 3, true} is labelled
\* "Shiny Foo obtained in 3 tries!".
C5_Announcement ==
    /\ [][\A i \in DOMAIN tabs : \A k \in DOMAIN tabs[i].trackers :
            (/\ i \in DOMAIN tabs' /\ k \in DOMAIN tabs'[i].trackers
             /\ ~tabs[i].trackers[k].obtained_var
             /\ tabs'[i].trackers[k].obtained_var)
            => /\ tabs'[i].trackers[k].name_var =
                    Announcement(tabs[i].trackers[k].name_var, tabs[i].trackers[k].count_var)
               /\ tabs'[i].trackers[k].count_var = tabs[i].trackers[k].count_var
               /\ tabs'[i].trackers[k].state = "disabled"]_vars
    /\ [](JustLoaded =>
            LET data == disk[ev.filename]
            IN  \A k \in DOMAIN data.trackers :
                   data.trackers[k].obtained =>
                     /\ tabs[selected].trackers[k].obtained_var
                     /\ tabs[selected].trackers[k].state = "disabled"
                     /\ tabs[selected].trackers[k].name_var =
                          Announcement(data.trackers[k].name, data.trackers[k].count)
                     /\ (data.trackers[k].name = <<"F","o","o">> /\ data.trackers[k].count = 3
                           => tabs[selected].trackers[k].name_var =
                                <<"S","h","i","n","y"," ","F","o","o"," ","o","b","t","a",
                                  "i","n","e","d"," ","i","n"," ","3"," ","t","r","i","e",
                                  "s","!">>))

\* {Foo, 3, true} restored locked, and a second tracker locked by its button
\* at 1 attempt
C5_Witness ==
    /\ Len(tabs) = 1 /\ Len(tabs[1].trackers) = 2
    /\ tabs[1].trackers[1].name_var = Announcement(N_Foo, 3)
    /\ Len(tabs[1].trackers[1].hist) = 1 /\ tabs[1].trackers[1].obtained_var
    /\ tabs[1].trackers[2].name_var =
         <<"S","h","i","n","y"," ","F","o","o"," ","o","b","t","a","i","n","e","d",
           " ","i","n"," ","1"," ","t","r","y","!">>
    /\ ev.op = "mark_obtained"

---------------------------------------------------------------------------
(* SpecStartup: the startup scan of a save directory whose files hold      *)
(* documents with any of their keys missing, or no document at all, then   *)
(* explicit loads.                                                         *)

F_a == <<"a">> \o JsonExt
F_b == <<"b">> \o JsonExt
F_notes == <<"c",".","t","x","t">>

StartupFiles == {F_a, F_b, F_notes}

\* tracker records with every subset of their keys
PartialRecs ==
    {[key \in keys |-> [name |-> N_Foo, count |-> 3, obtained |-> TRUE][key]] :
        keys \in SUBSET {"name", "count", "obtained"}}

PartialDocs ==
    {<<>>, "tab_name" :> N_T}
    \cup {"trackers" :> <<r>> : r \in PartialRecs}
    \cup {[tab_name |-> N_Foo, trackers |-> <<r>>] : r \in PartialRecs}

ContentsOf(f) == IF f = F_notes THEN {Corrupt, <<>>} ELSE {Corrupt} \cup PartialDocs

DirContents ==
    UNION {{c \in [S -> {Corrupt} \cup PartialDocs] : \A f \in S : c[f] \in ContentsOf(f)} :
              S \in SUBSET StartupFiles}

\* the file system holding directory content c (basename -> content)
DiskOf(c) ==
    [path \in {os_path_join(SAVE_DIRECTORY, f) : f \in DOMAIN c} |->
        c[CHOOSE f \in DOMAIN c : os_path_join(SAVE_DIRECTORY, f) = path]]

\* os.listdir gives the entries in arbitrary order
Listings(S) ==
    {q \in [1..Cardinality(S) -> S] : \A a, b \in 1..Cardinality(S) : q[a] = q[b] => a = b}

InitStartup == \E c \in DirContents : \E q \in Listings(DOMAIN c) :
    /\ tabs = <<>> /\ selected = 0
    /\ disk = DiskOf(c)
    /\ pc = "startup"
    /\ listing = q /\ scan_i = 0 /\ printed = <<>>
    /\ msg = "" /\ ev = [op |-> "init"]

NextStartup ==
    \/ ScanStep
    \/ StartMainloop
    \/ \E f \in DOMAIN disk \cup {<<>>} : load_tab_from_file(f)

SpecStartup == InitStartup /\ [][NextStartup]_vars

PathOf(f) == os_path_join(SAVE_DIRECTORY, f)
IsJsonEntry(f) == EndsWith(f, <<".","j","s","o","n">>)
ParsesEntry(f) == IsJsonEntry(f) /\ ~Raises(disk[PathOf(f)])
FailsEntry(f) == IsJsonEntry(f) /\ Raises(disk[PathOf(f)])

\* the listing entries the scan has gone through
Scanned == SubSeq(listing, 1, scan_i)

\* no explicit load has run yet
OnlyScanned == ev.op \in {"init", "scan", "mainloop"}

\* tab is what the specification says a document deserializes to
MatchesDoc(tab, data) ==
    LET recs == IF "trackers" \in DOMAIN data THEN data["trackers"] ELSE <<>>
    IN  /\ tab.tab_name = (IF "tab_name" \in DOMAIN data THEN data["tab_name"]
                           ELSE <<"U","n","t","i","t","l","e","d">>)
        /\ Len(tab.trackers) = Len(recs)
        /\ \A k \in DOMAIN recs :
              LET nm == IF "name" \in DOMAIN recs[k] THEN recs[k]["name"]
                        ELSE <<"E","r","r","o","r">>
                  c == IF "count" \in DOMAIN recs[k] THEN recs[k]["count"] ELSE 0
                  o == IF "obtained" \in DOMAIN recs[k] THEN recs[k]["obtained"] ELSE FALSE
              IN  /\ tab.trackers[k].count_var = c
                  /\ tab.trackers[k].obtained_var = o
                  /\ tab.trackers[k].name_var = (IF o THEN Announcement(nm, c) ELSE nm)

\* C6: a tab reconstructed from a parsed document, by an explicit load as
\* by the startup scan, is named "Untitled" when tab_name is absent and has
\* no trackers when trackers is absent; a record's missing name, count and
\* obtained default to "Error", 0 and false.
C6_Defaults ==
    /\ JustLoaded => MatchesDoc(tabs[selected], disk[ev.filename])
    /\ OnlyScanned =>
          LET loaded == SelectSeq(Scanned, ParsesEntry)
          IN  \A i \in DOMAIN tabs :
                 i \in DOMAIN loaded /\ MatchesDoc(tabs[i], disk[PathOf(loaded[i])])

\* C9: the scan goes through the whole listing; each *.json entry that
\* fails to parse prints one diagnostic and adds no tab, each other *.json
\* entry adds one tab, wherever the bad ones are in the listing.
C9_ScanSkipsBadFiles ==
    OnlyScanned =>
        LET loaded == SelectSeq(Scanned, ParsesEntry)
            failed == SelectSeq(Scanned, FailsEntry)
        IN  /\ pc = "running" => scan_i = Len(listing)
            /\ Len(tabs) = Len(loaded)
            /\ printed = [j \in DOMAIN failed |-> PathOf(failed[j])]
            /\ \A i \in DOMAIN tabs :
                  LET data == disk[PathOf(loaded[i])]
                  IN  /\ "tab_name" \in DOMAIN data => tabs[i].tab_name = data["tab_name"]
                      /\ Len(tabs[i].trackers) =
                           (IF "trackers" \in DOMAIN data THEN Len(data["trackers"]) ELSE 0)

\* a corrupt a.json listed before a valid b.json: one tab, one diagnostic
C9_Witness ==
    /\ pc = "running" /\ ev.op = "mainloop"
    /\ listing = <<F_a, F_b>>
    /\ Raises(disk[PathOf(F_a)]) /\ ~Raises(disk[PathOf(F_b)])
    /\ Len(tabs) = 1 /\ Len(printed) = 1

---------------------------------------------------------------------------
(* SpecLoad: an application started on an empty notebook; the user loads   *)
(* files, switches tabs and clicks on trackers.                            *)

F_c == <<"c">> \o JsonExt

LoadDocs ==
    {<<>>,
     "tab_name" :> N_T,
     [tab_name |-> N_T, trackers |-> <<[name |-> N_Foo, count |-> 1, obtained |-> FALSE]>>],
     [tab_name |-> N_Foo, trackers |-> <<[name |-> N_Foo, count |-> 3, obtained |-> TRUE]>>],
     "trackers" :> <<[name |-> N_Foo, count |-> 0, obtained |-> FALSE]>>}

InitLoad == \E c \in [{F_a, F_b, F_c} -> {Corrupt} \cup LoadDocs] :
    InitRunning(<<>>, DiskOf(c))

NextLoad ==
    \/ \E f \in DOMAIN disk \cup {<<>>} : load_tab_from_file(f)
    \/ \E k \in 1..MaxTrackers : ClickIncrement(k)
    \/ \E i \in 1..MaxTabs : SelectTab(i)

SpecLoad == InitLoad /\ [][NextLoad]_vars

\* the tab name an explicit load gives the document
LoadName(data) ==
    IF "tab_name" \in DOMAIN data THEN data["tab_name"]
    ELSE <<"U","n","t","i","t","l","e","d">>

\* C8: an explicit load of a document whose tab name is that of an open tab
\* adds nothing and changes no tab, shows the "Already Open" warning and
\* selects the open tab of that name; loads alone never open two tabs of
\* the same name.
C8_LoadRejectsOpenName ==
    /\ [][(/\ ev'.op = "load_tab_from_file"
           /\ ev'.filename /= <<>>
           /\ ~Raises(disk[ev'.filename])
           /\ \E i \in DOMAIN tabs : tabs[i].tab_name = LoadName(disk[ev'.filename]))
          => /\ tabs' = tabs
             /\ msg' = "showwarning: Already Open"
             /\ selected' \in DOMAIN tabs
             /\ tabs[selected'].tab_name = LoadName(disk[ev'.filename])]_vars
    /\ [](\A i, j \in DOMAIN tabs : tabs[i].tab_name = tabs[j].tab_name => i = j)

\* a second document named like the first tab is loaded while the second
\* tab is selected and after a click on a tracker of the first
C8_Witness ==
    /\ ev.op = "load_tab_from_file" /\ msg = "showwarning: Already Open"
    /\ Len(tabs) = 2 /\ selected = 1
    /\ Len(tabs[1].trackers) = 1 /\ Len(tabs[1].trackers[1].hist) = 2

---------------------------------------------------------------------------
(* SpecKey: tabs are created under every short name over a small alphabet  *)
(* and under the names of the documented collisions, and saved.            *)

KeyChars == {"A", "b", " ", "!", "\n", "_", "."}

CollidingNames == {N_AB, N_a_b, N_Glazed, N_glazed}

KeyNames == SeqsUpTo(KeyChars, MaxNameLen) \cup CollidingNames

InitKey == InitRunning(<<>>, NoFiles)

NextKey ==
    \/ \E name \in KeyNames : tabs = <<>> /\ add_tab(name)
    \/ \E name \in CollidingNames :
          tabs /= <<>> /\ tabs[1].tab_name \in CollidingNames /\ add_tab(name)
    \/ \E written \in BOOLEAN : save_current_tab(written)
    \/ \E i \in 1..MaxTabs : SelectTab(i)

SpecKey == InitKey /\ [][NextKey]_vars

\* the key as the specification words it, character by character: the
\* name between its first and last character that is not a space (after
\* replacement only spaces are white), each character lower-cased when it
\* is a letter, kept when it is a digit, underscore, hyphen or dot, and an
\* underscore otherwise
ExpectedKey(name) ==
    LET kept(c) == IsWordChar(c) \/ c \in {"-", ".", " "}
        inner == {i \in DOMAIN name : name[i] /= " "}
    IN  IF inner = {} THEN <<>>
        ELSE LET lo == CHOOSE i \in inner : \A j \in inner : i <= j
                 hi == CHOOSE i \in inner : \A j \in inner : j <= i
             IN  [j \in 1..(hi - lo + 1) |->
                    LET c == name[lo + j - 1]
                    IN  IF ~kept(c) \/ c = " " THEN "_" ELSE char_lower(c)]

ExpectedPath(name) ==
    <<"s","h","i","n","y","_","s","a","v","e","s","/">> \o ExpectedKey(name)
    \o <<".","j","s","o","n">>

P_glazed == <<"s","h","i","n","y","_","s","a","v","e","s","/",
              "p","o","k","e","m","o","n","_","g","l","a","z","e","d","_",
              ".","j","s","o","n">>
P_a_b == <<"s","h","i","n","y","_","s","a","v","e","s","/","a","_","b",".","j","s","o","n">>

\* C7: the file of a tab is named by the key of its name: bad characters
\* replaced by underscores, trimmed, lower-cased, spaces replaced by
\* underscores; the key holds no space and no upper-case letter, and
\* "Pokemon Glazed!" / "pokemon_glazed!" and "A B" / "a_b" share a key.
C7_StorageKey ==
    /\ \A f \in DOMAIN disk : \E i \in DOMAIN tabs : f = ExpectedPath(tabs[i].tab_name)
    /\ (ev.op = "save_current_tab" /\ ev.written /\ selected /= 0) =>
          LET f == ExpectedPath(tabs[selected].tab_name)
          IN  /\ f \in DOMAIN disk
              /\ disk[f]["tab_name"] = tabs[selected].tab_name
    /\ \A f \in DOMAIN disk : \A j \in DOMAIN f : f[j] /= " " /\ ~IsUpper(f[j])
    /\ \A i \in DOMAIN tabs :
          /\ tabs[i].tab_name \in {N_Glazed, N_glazed} =>
                get_filename_for_tab(tabs[i].tab_name) = P_glazed
          /\ tabs[i].tab_name \in {N_AB, N_a_b} =>
                get_filename_for_tab(tabs[i].tab_name) = P_a_b

\* "Pokemon Glazed!" and "pokemon_glazed!" are open, both were saved, and
\* one file holds the one saved last
C7_Witness ==
    /\ Len(tabs) = 2
    /\ tabs[1].tab_name = N_Glazed /\ tabs[2].tab_name = N_glazed
    /\ DOMAIN disk = {P_glazed}
    /\ ~Raises(disk[P_glazed])
    /\ disk[P_glazed]["tab_name"] = N_Glazed
    /\ ev.op = "save_current_tab" /\ selected = 1

---------------------------------------------------------------------------
(* SpecQuit: tabs are created, loaded, edited and removed, and the window  *)
(* is closed.                                                              *)

QuitNames == {N_AB, N_a_b}

QuitDocs ==
    {[tab_name |-> N_T, trackers |-> <<[name |-> N_Foo, count |-> 3, obtained |-> FALSE]>>]}

InitQuit == \E c \in [{F_a} -> QuitDocs] : InitRunning(<<>>, DiskOf(c))

NextQuit ==
    \/ \E name \in QuitNames \cup {<<>>} : add_tab(name)
    \/ \E f \in DOMAIN disk \cup {<<>>} : load_tab_from_file(f)
    \/ selected /= 0 /\ Len(tabs[selected].trackers) < MaxAdded /\ ClickAddTracker
    \/ \E k \in 1..MaxTrackers : ClickGotIt(k)
    \/ \E confirm, removed \in BOOLEAN : \E next \in 0..MaxTabs :
          remove_current_tab(confirm, removed, next)
    \/ \E confirm \in BOOLEAN : \E n \in 0..Len(tabs) : on_closing(confirm, n)

SpecQuit == InitQuit /\ [][NextQuit]_vars

\* the window was closed, the user asked to save all tabs and no write raised
SavedAllOnQuit ==
    /\ pc = "destroyed"
    /\ ev.op = "on_closing" /\ ev.confirm /\ ~ev.failed

\* C10 as stated: after a save-all on quit the file derived from the name
\* of every open tab holds that tab's own serialization.
C10_OneDocumentPerTab ==
    SavedAllOnQuit =>
        \A i \in DOMAIN tabs :
            LET f == get_filename_for_tab(tabs[i].tab_name)
            IN  f \in DOMAIN disk /\ disk[f] = tab_get_data(tabs[i])

\* the file of each open tab
TabFiles == [i \in DOMAIN tabs |-> get_filename_for_tab(tabs[i].tab_name)]

\* the last open tab, in tab order, whose name derives file f
LastSharing(files, f) ==
    CHOOSE j \in DOMAIN files : files[j] = f /\ \A m \in DOMAIN files : files[m] = f => m <= j

\* C10 amended: after a save-all on quit the file derived from the name of
\* every open tab exists and holds the serialization of the last open tab,
\* in tab order, whose name derives that file: the tab's own serialization
\* when no later tab shares its file.
C10_LastTabPerFile ==
    SavedAllOnQuit =>
        LET files == TabFiles
        IN  \A i \in DOMAIN tabs :
               LET last == tabs[LastSharing(files, files[i])]
               IN  /\ files[i] \in DOMAIN disk
                   /\ disk[files[i]] =
                        [tab_name |-> last.tab_name,
                         trackers |-> [k \in DOMAIN last.trackers |-> get_data(last.trackers[k])]]
                   /\ (LastSharing(files, files[i]) = i =>
                         /\ disk[files[i]]["tab_name"] = tabs[i].tab_name
                         /\ Len(disk[files[i]]["trackers"]) = Len(tabs[i].trackers))

\* two tabs with files of their own, each with a tracker, saved on quit
C10_Witness ==
    /\ SavedAllOnQuit
    /\ Len(tabs) = 2
    /\ TabFiles[1] /= TabFiles[2]
    /\ Len(tabs[1].trackers) = 1 /\ Len(tabs[2].trackers) = 1
    /\ tabs[1].trackers[1].obtained_var /= tabs[2].trackers[1].obtained_var

=============================================================================
